---- MODULE Spec2Model ----
(***************************************************************************)
(* The form submission / validation state machine of the restaurant page:  *)
(* the Reservation, Newsletter and LoyaltyProgram components.  Each        *)
(* component owns its state (useState hooks); a behaviour follows one      *)
(* mounted component instance, chosen in Init.  The page around the forms  *)
(* is modelled as well: the App theme with its two effects, the            *)
(* EventPromotion and ChefsSpecial carousels and the Reviews list.         *)
(***************************************************************************)
EXTENDS Integers, Sequences, FiniteSets, TLC

VARIABLES
    component,       \* which form component this instance is
    formData,        \* formData / membershipData: field name -> JS value
    errors,          \* errors object: field name -> message string
    isSubmitting,    \* isSubmitting flag
    submitStatus,    \* "null", "success" or "error"
    showSignupForm,  \* LoyaltyProgram only: whether the signup form is rendered
    timers,          \* number of pending setTimeout continuations of handleSubmit
    draws,           \* number of Math.random() calls made so far
    mounted,         \* the component instance is mounted
    theme,             \* App: the theme state hook
    renderedTheme,     \* App: theme as seen by the last committed render
    effects,           \* App: effects of the last commit still to run
    localTheme,        \* localStorage item 'theme' ("null" when absent)
    dataTheme,         \* data-theme attribute of the document element
    matchMedia,        \* window.matchMedia: "undefined", "dark" or "light"
    setItemThrows,     \* localStorage.setItem throws in this browser
    toggles,           \* number of toggleTheme calls so far
    currentEventIndex,   \* EventPromotion: index of the featured event shown
    currentDishIndex,    \* ChefsSpecial: index of the dish shown
    showFullDescription, \* ChefsSpecial: long description shown
    visibleReviews,      \* Reviews: number of reviews shown
    expandedReviews      \* Reviews: ids of the reviews shown in full

\* the state of the form component instance
formVars == <<component, formData, errors, isSubmitting, submitStatus,
              showSignupForm, timers, draws, mounted>>

\* the state of App's theme
themeVars == <<theme, renderedTheme, effects, localTheme, dataTheme,
               matchMedia, setItemThrows, toggles>>

\* the state of the carousels and of the Reviews list
widgetVars == <<currentEventIndex, currentDishIndex, showFullDescription,
                visibleReviews, expandedReviews>>

\* the state of the page outside the forms
pageVars == <<themeVars, widgetVars>>

vars == <<formVars, pageVars>>

(***************************************************************************)
(* Bounds of the model.                                                    *)
(***************************************************************************)
\* submissions (timers started) allowed in one behaviour
MaxDraws == 2
\* overlapping timers allowed when submit events are dispatched directly
MaxTimers == 2

\* largest party size tried on validateForm
MaxPartySample == 14

(***************************************************************************)
(* JavaScript values: a string is [str |-> s], a number is [num |-> n].    *)
(* An object ({} with string keys) is a function on its set of keys.       *)
(***************************************************************************)
JsStr(s) == [str |-> s]
JsNum(n) == [num |-> n]
IsStr(v) == "str" \in DOMAIN v

EmptyObj == [k \in {} |-> ""]

\* { ...obj, [k]: v }
Put(obj, k, v) == [x \in (DOMAIN obj) \cup {k} |-> IF x = k THEN v ELSE obj[x]]

\* Object.keys(obj)
Keys(obj) == DOMAIN obj

\* truthiness of a JS value: '' and 0 are falsy
Truthy(v) == IF IsStr(v) THEN v.str # "" ELSE v.num # 0

\* truthiness of obj[k] for an object of strings: a missing key is undefined
HasError(obj, k) == k \in DOMAIN obj /\ obj[k] # ""

(***************************************************************************)
(* Characters and the string functions the validators use.                 *)
(***************************************************************************)
CharAt(s, i) == SubSeq(s, i, i)

Digits == "0123456789"

IsDigit(c) == \E d \in 1..10 : CharAt(Digits, d) = c

\* \s
IsSpace(c) == c \in {" ", "\t", "\n"}

RECURSIVE TrimStart(_)
TrimStart(s) ==
    IF Len(s) = 0 THEN s
    ELSE IF IsSpace(CharAt(s, 1)) THEN TrimStart(SubSeq(s, 2, Len(s)))
    ELSE s

RECURSIVE TrimEnd(_)
TrimEnd(s) ==
    IF Len(s) = 0 THEN s
    ELSE IF IsSpace(CharAt(s, Len(s))) THEN TrimEnd(SubSeq(s, 1, Len(s) - 1))
    ELSE s

\* String.prototype.trim
Trim(s) == TrimEnd(TrimStart(s))

\* s.replace(/\s/g, '')
RECURSIVE RemoveSpaces(_)
RemoveSpaces(s) ==
    IF Len(s) = 0 THEN s
    ELSE IF IsSpace(CharAt(s, 1)) THEN RemoveSpaces(SubSeq(s, 2, Len(s)))
    ELSE CharAt(s, 1) \o RemoveSpaces(SubSeq(s, 2, Len(s)))

\* the email expression without the \.[^\s@]+ part
EmailRegexNoDot(s) ==
    \E i \in 1..Len(s) :
        /\ CharAt(s, i) = "@"
        /\ i >= 2
        /\ i < Len(s)
        /\ \A k \in 1..Len(s) :
              /\ ~IsSpace(CharAt(s, k))
              /\ (k # i => CharAt(s, k) # "@")

\* /^[^\s@]+@[^\s@]+\.[^\s@]+$/.test(s)
EmailRegex(s) ==
    \E i \in 1..Len(s) :
        /\ CharAt(s, i) = "@"
        /\ i >= 2
        /\ \A k \in 1..Len(s) :
              /\ ~IsSpace(CharAt(s, k))
              /\ (k # i => CharAt(s, k) # "@")
        /\ \E j \in (i + 2)..(Len(s) - 1) : CharAt(s, j) = "."

\* [\d\s\-\(\)]
IsPhoneChar(c) == IsDigit(c) \/ IsSpace(c) \/ c \in {"-", "(", ")"}

\* /^[\+]?[\d\s\-\(\)]{10,}$/.test(s)
PhoneRegex(s) ==
    LET start == IF Len(s) > 0 /\ CharAt(s, 1) = "+" THEN 2 ELSE 1
    IN  /\ Len(s) - start + 1 >= 10
        /\ \A k \in start..Len(s) : IsPhoneChar(CharAt(s, k))

\* value of a string of decimal digits
RECURSIVE DigitsValue(_)
DigitsValue(s) ==
    IF Len(s) = 0 THEN 0
    ELSE 10 * DigitsValue(SubSeq(s, 1, Len(s) - 1))
         + ((CHOOSE d \in 1..10 : CharAt(Digits, d) = CharAt(s, Len(s))) - 1)

\* ToNumber(v) is NaN: a string that is not blank and not all digits
IsNaN(v) ==
    /\ IsStr(v)
    /\ \E k \in 1..Len(Trim(v.str)) : ~IsDigit(CharAt(Trim(v.str), k))

\* ToNumber(v), for unsigned decimal strings and numbers
ToNumber(v) == IF IsStr(v) THEN DigitsValue(Trim(v.str)) ELSE v.num

\* v < n and v > n for a JS value v and a number n (false when v is NaN)
JsLess(v, n) == ~IsNaN(v) /\ ToNumber(v) < n
\* v >= n written for v > n
JsGreaterOrEqual(v, n) == ~IsNaN(v) /\ ToNumber(v) >= n
JsGreater(v, n) == ~IsNaN(v) /\ ToNumber(v) > n

(***************************************************************************)
(* The three forms.                                                        *)
(***************************************************************************)
Forms == {"Reservation", "Newsletter", "LoyaltyProgram"}

\* useState initial values; also the literal the success branch resets to
InitialFormData(form) ==
    CASE form = "Reservation" ->
            [date |-> JsStr(""), time |-> JsStr(""), partySize |-> JsNum(2),
             name |-> JsStr(""), email |-> JsStr(""), phone |-> JsStr(""),
             specialRequests |-> JsStr("")]
      [] form = "Newsletter" ->
            [email |-> JsStr(""), firstName |-> JsStr("")]
      [] form = "LoyaltyProgram" ->
            [email |-> JsStr(""), firstName |-> JsStr(""), phone |-> JsStr("")]

\* the name attributes of the inputs the form renders
FieldNames(form) == DOMAIN InitialFormData(form)

\* e.target.value of the form's controls: a sample of the options a select
\* offers and of the texts typed into the text inputs
InputValues(form, name) ==
    CASE name = "date" -> {JsStr(""), JsStr("2024-03-01")}
      [] name = "time" -> {JsStr("6:00 PM")}
      [] name = "partySize" -> {JsStr("4")}
      [] name = "name" -> {JsStr(""), JsStr(" "), JsStr("Jane Doe")}
      [] name = "specialRequests" -> {JsStr("Window seat")}
      [] name = "firstName" -> {JsStr(""), JsStr(" "), JsStr("J"), JsStr("Jane")}
      [] name = "email" ->
            IF form = "Reservation"
            THEN {JsStr(""), JsStr("jane@example.com")}
            ELSE {JsStr(""), JsStr(" "), JsStr("jane"), JsStr("jane@example.com")}
      [] name = "phone" ->
            IF form = "Reservation"
            THEN {JsStr(""), JsStr("1234567890")}
            ELSE {JsStr(""), JsStr(" "), JsStr("12345"), JsStr("(123) 456-7890")}

(***************************************************************************)
(* validateForm: builds newErrors from the current field values.           *)
(***************************************************************************)
validateEmail(data, e, required) ==
    IF Trim(data.email.str) = "" THEN Put(e, "email", required)
    ELSE IF ~EmailRegex(data.email.str)
         THEN Put(e, "email", "Please enter a valid email address")
    ELSE e

\* validatePhone testing the phone as typed, without replace(/\s/g, '')
validatePhoneKeepSpaces(data, e) ==
    IF Trim(data.phone.str) = "" THEN Put(e, "phone", "Phone number is required")
    ELSE IF ~PhoneRegex(data.phone.str)
         THEN Put(e, "phone", "Please enter a valid phone number")
    ELSE e

validatePhone(data, e) ==
    IF Trim(data.phone.str) = "" THEN Put(e, "phone", "Phone number is required")
    ELSE IF ~PhoneRegex(RemoveSpaces(data.phone.str))
         THEN Put(e, "phone", "Please enter a valid phone number")
    ELSE e

\* validateFirstName measuring the untrimmed length
validateFirstNameRawLength(data, e) ==
    IF Trim(data.firstName.str) = ""
    THEN Put(e, "firstName", "First name is required")
    ELSE IF Len(data.firstName.str) < 2
         THEN Put(e, "firstName", "First name must be at least 2 characters")
    ELSE e

validateFirstName(data, e) ==
    IF Trim(data.firstName.str) = ""
    THEN Put(e, "firstName", "First name is required")
    ELSE IF Len(Trim(data.firstName.str)) < 2
         THEN Put(e, "firstName", "First name must be at least 2 characters")
    ELSE e

\* validateReservation with the name test written !formData.name (no trim)
validateReservationNoTrim(data) ==
    LET e1 == IF ~Truthy(data.date)
              THEN Put(EmptyObj, "date", "Please select a date") ELSE EmptyObj
        e2 == IF ~Truthy(data.time)
              THEN Put(e1, "time", "Please select a time") ELSE e1
        e3 == IF ~Truthy(data.name)
              THEN Put(e2, "name", "Name is required") ELSE e2
        e4 == validateEmail(data, e3, "Email is required")
        e5 == validatePhone(data, e4)
    IN  IF JsLess(data.partySize, 1) \/ JsGreater(data.partySize, 12)
        THEN Put(e5, "partySize", "Party size must be between 1 and 12")
        ELSE e5

validateReservation(data) ==
    LET e1 == IF ~Truthy(data.date)
              THEN Put(EmptyObj, "date", "Please select a date") ELSE EmptyObj
        e2 == IF ~Truthy(data.time)
              THEN Put(e1, "time", "Please select a time") ELSE e1
        e3 == IF Trim(data.name.str) = ""
              THEN Put(e2, "name", "Name is required") ELSE e2
        e4 == validateEmail(data, e3, "Email is required")
        e5 == validatePhone(data, e4)
    IN  IF JsLess(data.partySize, 1) \/ JsGreater(data.partySize, 12)
        THEN Put(e5, "partySize", "Party size must be between 1 and 12")
        ELSE e5

validateNewsletter(data) ==
    validateFirstName(data, validateEmail(data, EmptyObj, "Email address is required"))

validateLoyalty(data) ==
    validatePhone(data,
        validateFirstName(data,
            validateEmail(data, EmptyObj, "Email address is required")))

validateForm(form, data) ==
    CASE form = "Reservation" -> validateReservation(data)
      [] form = "Newsletter" -> validateNewsletter(data)
      [] form = "LoyaltyProgram" -> validateLoyalty(data)

(***************************************************************************)
(* App: the theme.  useState('light'); a mount effect that reads the saved *)
(* or the system preference; an effect on [theme] that writes the          *)
(* data-theme attribute and the localStorage item.  The effects of a       *)
(* commit run in the order of their declaration, each with the theme of    *)
(* the render that was committed; a setTheme takes effect in the next      *)
(* render.                                                                 *)
(***************************************************************************)
\* toggleTheme calls allowed in one behaviour
MaxToggles == 3

ThemeValues == {"light", "dark"}

\* what localStorage.getItem('theme') may return before the page runs
StoredThemes == {"null", "light", "dark", "blue"}

MatchMediaValues == {"undefined", "dark", "light"}

\* t === 'light' ? 'dark' : 'light'
OtherTheme(t) == IF t = "light" THEN "dark" ELSE "light"

\* window.matchMedia && window.matchMedia('(prefers-color-scheme: dark)').matches
prefersDark == matchMedia = "dark"

\* the effect with no dependencies, run once after the first commit
mountEffect ==
    /\ effects # <<>>
    /\ Head(effects) = "mount"
    /\ theme' = IF localTheme = "light" \/ localTheme = "dark"
                THEN localTheme
                ELSE IF prefersDark THEN "dark" ELSE "light"
    /\ effects' = Tail(effects)
    /\ UNCHANGED <<formVars, widgetVars, renderedTheme, localTheme, dataTheme,
                   matchMedia, setItemThrows, toggles>>

\* the effect on [theme]: setAttribute, then setItem inside try / catch
persistEffect ==
    /\ effects # <<>>
    /\ Head(effects) = "persist"
    /\ dataTheme' = renderedTheme
    /\ localTheme' = IF setItemThrows THEN localTheme ELSE renderedTheme
    /\ effects' = Tail(effects)
    /\ UNCHANGED <<formVars, widgetVars, theme, renderedTheme, matchMedia,
                   setItemThrows, toggles>>

\* App renders again after setTheme changed the state; the commit schedules
\* the effect whose dependency [theme] changed
renderApp ==
    /\ effects = <<>>
    /\ theme # renderedTheme
    /\ renderedTheme' = theme
    /\ effects' = <<"persist">>
    /\ UNCHANGED <<formVars, widgetVars, theme, localTheme, dataTheme,
                   matchMedia, setItemThrows, toggles>>

\* a toggle that always selects the dark theme
toggleThemeSetDark ==
    /\ effects = <<>>
    /\ toggles < MaxToggles
    /\ theme' = "dark"
    /\ toggles' = toggles + 1
    /\ UNCHANGED <<formVars, widgetVars, renderedTheme, effects, localTheme,
                   dataTheme, matchMedia, setItemThrows>>

\* the theme button of the Navbar: setTheme(t => ...), once the pending
\* effects have run
toggleTheme ==
    /\ effects = <<>>
    /\ toggles < MaxToggles
    /\ theme' = OtherTheme(theme)
    /\ toggles' = toggles + 1
    /\ UNCHANGED <<formVars, widgetVars, renderedTheme, effects, localTheme,
                   dataTheme, matchMedia, setItemThrows>>

\* the theme of a page whose effects have all run, in a light system
ThemeAtRest ==
    /\ theme = "light"
    /\ renderedTheme = "light"
    /\ effects = <<>>
    /\ localTheme = "light"
    /\ dataTheme = "light"
    /\ matchMedia = "light"
    /\ setItemThrows = FALSE
    /\ toggles = 0

(***************************************************************************)
(* EventPromotion and ChefsSpecial: the carousels.  Indices count from 0.  *)
(***************************************************************************)
\* the featured flag of each entry of eventsData
eventsData == <<TRUE, FALSE, FALSE, TRUE>>

\* eventsData.filter(event => event.featured), as positions in eventsData
featuredEvents ==
    SelectSeq([i \in 1..Len(eventsData) |-> i], LAMBDA i : eventsData[i])

\* the ids of featuredDishes
featuredDishes == <<1, 2, 3>>

\* the JavaScript remainder a % n for n > 0: it has the sign of a
JsRem(a, n) == IF a >= 0 THEN a % n ELSE 0 - ((0 - a) % n)

\* prev => (prev + 1) % length
nextIndex(prev, length) == JsRem(prev + 1, length)

\* prev - 1 without the added length
prevIndexNoWrap(prev, length) == JsRem(prev - 1, length)

\* prev => (prev - 1 + length) % length
prevIndex(prev, length) == JsRem(prev - 1 + length, length)

\* the next button, disabled when there is one featured event
nextEvent ==
    /\ Len(featuredEvents) > 1
    /\ currentEventIndex' = nextIndex(currentEventIndex, Len(featuredEvents))
    /\ UNCHANGED <<formVars, themeVars, currentDishIndex, showFullDescription,
                   visibleReviews, expandedReviews>>

\* the previous button, disabled when there is one featured event
prevEvent ==
    /\ Len(featuredEvents) > 1
    /\ currentEventIndex' = prevIndex(currentEventIndex, Len(featuredEvents))
    /\ UNCHANGED <<formVars, themeVars, currentDishIndex, showFullDescription,
                   visibleReviews, expandedReviews>>

\* an indicator button, one per featured event
goToEvent(index) ==
    /\ index \in 0..(Len(featuredEvents) - 1)
    /\ currentEventIndex' = index
    /\ UNCHANGED <<formVars, themeVars, currentDishIndex, showFullDescription,
                   visibleReviews, expandedReviews>>

nextDish ==
    /\ Len(featuredDishes) > 1
    /\ currentDishIndex' = nextIndex(currentDishIndex, Len(featuredDishes))
    /\ showFullDescription' = FALSE
    /\ UNCHANGED <<formVars, themeVars, currentEventIndex, visibleReviews,
                   expandedReviews>>

prevDish ==
    /\ Len(featuredDishes) > 1
    /\ currentDishIndex' = prevIndex(currentDishIndex, Len(featuredDishes))
    /\ showFullDescription' = FALSE
    /\ UNCHANGED <<formVars, themeVars, currentEventIndex, visibleReviews,
                   expandedReviews>>

\* an indicator button or a preview card, one of each per dish
goToDish(index) ==
    /\ index \in 0..(Len(featuredDishes) - 1)
    /\ currentDishIndex' = index
    /\ showFullDescription' = FALSE
    /\ UNCHANGED <<formVars, themeVars, currentEventIndex, visibleReviews,
                   expandedReviews>>

toggleDescription ==
    /\ showFullDescription' = ~showFullDescription
    /\ UNCHANGED <<formVars, themeVars, currentEventIndex, currentDishIndex,
                   visibleReviews, expandedReviews>>

(***************************************************************************)
(* Reviews: the visible count and the set of expanded reviews.             *)
(***************************************************************************)
\* review.review.length of each entry of reviewsData; the id of the entry at
\* position i is i
reviewsData == <<184, 153, 166, 177, 159, 149>>

\* Math.min
Min(a, b) == IF a < b THEN a ELSE b

\* the Show More button, rendered while reviews remain
showMoreReviews ==
    /\ visibleReviews < Len(reviewsData)
    /\ visibleReviews' = Min(visibleReviews + 3, Len(reviewsData))
    /\ UNCHANGED <<formVars, themeVars, currentEventIndex, currentDishIndex,
                   showFullDescription, expandedReviews>>

\* the review.review.length > 150 test that renders the expand button
shouldTruncate(reviewId) == reviewsData[reviewId] > 150

\* the ids rendered by reviewsData.slice(0, visibleReviews)
RenderedReviews == 1..Min(visibleReviews, Len(reviewsData))

\* an expansion that forgets the other expanded reviews
toggleReviewExpansionAlone(reviewId) ==
    /\ reviewId \in RenderedReviews
    /\ shouldTruncate(reviewId)
    /\ expandedReviews' = IF reviewId \in expandedReviews
                          THEN {}
                          ELSE {reviewId}
    /\ UNCHANGED <<formVars, themeVars, currentEventIndex, currentDishIndex,
                   showFullDescription, visibleReviews>>

\* the Read more / Show less button of a rendered review
toggleReviewExpansion(reviewId) ==
    /\ reviewId \in RenderedReviews
    /\ shouldTruncate(reviewId)
    /\ expandedReviews' = IF reviewId \in expandedReviews
                          THEN expandedReviews \ {reviewId}
                          ELSE expandedReviews \cup {reviewId}
    /\ UNCHANGED <<formVars, themeVars, currentEventIndex, currentDishIndex,
                   showFullDescription, visibleReviews>>

\* the carousels and the Reviews list as first rendered
WidgetsAtMount ==
    /\ currentEventIndex = 0
    /\ currentDishIndex = 0
    /\ showFullDescription = FALSE
    /\ visibleReviews = 3
    /\ expandedReviews = {}

\* the page around a form: settled theme, widgets as first rendered
PageAtRest == ThemeAtRest /\ WidgetsAtMount

(***************************************************************************)
(* Initial state: a freshly mounted component.                             *)
(***************************************************************************)
Init ==
    /\ component \in Forms
    /\ formData = InitialFormData(component)
    /\ errors = EmptyObj
    /\ isSubmitting = FALSE
    /\ submitStatus = "null"
    /\ showSignupForm = FALSE
    /\ timers = 0
    /\ draws = 0
    /\ mounted = TRUE
    /\ PageAtRest

\* the <form> element is rendered: always while the component is mounted,
\* except LoyaltyProgram's signup form
FormRendered == mounted /\ (component = "LoyaltyProgram" => showSignupForm)

(***************************************************************************)
(* handleInputChange: a change event of the control called name.           *)
(***************************************************************************)
\* handleInputChange that leaves the field's error in place
handleInputChangeKeepError(name, value) ==
    /\ formData' = Put(formData, name, value)
    /\ UNCHANGED <<pageVars, mounted, component, errors, isSubmitting, submitStatus,
                   showSignupForm, timers, draws>>

\* handleInputChange that validates the new values on every edit
handleInputChangeRevalidate(name, value) ==
    /\ formData' = Put(formData, name, value)
    /\ errors' = validateForm(component, Put(formData, name, value))
    /\ UNCHANGED <<pageVars, mounted, component, isSubmitting, submitStatus, showSignupForm,
                   timers, draws>>

\* handleInputChange that also calls setSubmitStatus(null)
handleInputChangeClearStatus(name, value) ==
    /\ formData' = Put(formData, name, value)
    /\ errors' = IF HasError(errors, name) THEN Put(errors, name, "") ELSE errors
    /\ submitStatus' = "null"
    /\ UNCHANGED <<pageVars, mounted, component, isSubmitting, showSignupForm,
                   timers, draws>>

\* handleInputChange without the if (errors[name]) test
handleInputChangeAlwaysBlank(name, value) ==
    /\ formData' = Put(formData, name, value)
    /\ errors' = Put(errors, name, "")
    /\ UNCHANGED <<pageVars, mounted, component, isSubmitting, submitStatus,
                   showSignupForm, timers, draws>>

\* an edit that re-enables the submit button of a form in flight
handleInputChangeEndsSubmitting(name, value) ==
    /\ formData' = Put(formData, name, value)
    /\ errors' = IF HasError(errors, name) THEN Put(errors, name, "") ELSE errors
    /\ isSubmitting' = FALSE
    /\ UNCHANGED <<pageVars, mounted, component, submitStatus, showSignupForm,
                   timers, draws>>

handleInputChange(name, value) ==
    /\ formData' = Put(formData, name, value)
    /\ errors' = IF HasError(errors, name) THEN Put(errors, name, "") ELSE errors
    /\ UNCHANGED <<pageVars, mounted, component, isSubmitting, submitStatus, showSignupForm,
                   timers, draws>>

ChangeInput ==
    /\ FormRendered
    /\ \E name \in FieldNames(component) :
          \E value \in InputValues(component, name) :
              handleInputChange(name, value)

(***************************************************************************)
(* handleSubmit, up to the await: validate, then either publish the errors *)
(* or start the simulated request.                                         *)
(***************************************************************************)
\* handleSubmit without the return after setErrors(formErrors)
handleSubmitNoReturn ==
    LET formErrors == validateForm(component, formData)
    IN  /\ isSubmitting' = TRUE
        /\ submitStatus' = "null"
        /\ errors' = EmptyObj
        /\ timers' = timers + 1
        /\ UNCHANGED <<pageVars, mounted, component, formData, showSignupForm, draws>>

\* handleSubmit without setSubmitStatus(null)
handleSubmitKeepStatus ==
    LET formErrors == validateForm(component, formData)
    IN  IF Cardinality(Keys(formErrors)) > 0
        THEN /\ errors' = formErrors
             /\ UNCHANGED <<pageVars, mounted, component, formData, isSubmitting, submitStatus,
                            showSignupForm, timers, draws>>
        ELSE /\ isSubmitting' = TRUE
             /\ errors' = EmptyObj
             /\ timers' = timers + 1
             /\ UNCHANGED <<pageVars, mounted, component, formData, submitStatus,
                            showSignupForm, draws>>

\* handleSubmit calling setSubmitStatus(null) before validateForm
handleSubmitClearStatusFirst ==
    LET formErrors == validateForm(component, formData)
    IN  IF Cardinality(Keys(formErrors)) > 0
        THEN /\ errors' = formErrors
             /\ submitStatus' = "null"
             /\ UNCHANGED <<pageVars, mounted, component, formData, isSubmitting,
                            showSignupForm, timers, draws>>
        ELSE /\ isSubmitting' = TRUE
             /\ submitStatus' = "null"
             /\ errors' = EmptyObj
             /\ timers' = timers + 1
             /\ UNCHANGED <<pageVars, mounted, component, formData, showSignupForm, draws>>

\* a failed pass merged into the errors of the earlier passes
handleSubmitMergeErrors ==
    LET formErrors == validateForm(component, formData)
    IN  IF Cardinality(Keys(formErrors)) > 0
        THEN /\ errors' = [name \in DOMAIN errors \cup DOMAIN formErrors |->
                              IF name \in DOMAIN formErrors
                              THEN formErrors[name] ELSE errors[name]]
             /\ UNCHANGED <<pageVars, mounted, component, formData, isSubmitting,
                            submitStatus, showSignupForm, timers, draws>>
        ELSE /\ isSubmitting' = TRUE
             /\ submitStatus' = "null"
             /\ errors' = EmptyObj
             /\ timers' = timers + 1
             /\ UNCHANGED <<pageVars, mounted, component, formData, showSignupForm,
                            draws>>

\* a handler that validates the values of the first render
handleSubmitStaleValues ==
    LET formErrors == validateForm(component, InitialFormData(component))
    IN  IF Cardinality(Keys(formErrors)) > 0
        THEN /\ errors' = formErrors
             /\ UNCHANGED <<pageVars, mounted, component, formData, isSubmitting,
                            submitStatus, showSignupForm, timers, draws>>
        ELSE /\ isSubmitting' = TRUE
             /\ submitStatus' = "null"
             /\ errors' = EmptyObj
             /\ timers' = timers + 1
             /\ UNCHANGED <<pageVars, mounted, component, formData, showSignupForm,
                            draws>>

handleSubmit ==
    LET formErrors == validateForm(component, formData)
    IN  IF Cardinality(Keys(formErrors)) > 0
        THEN /\ errors' = formErrors
             /\ UNCHANGED <<pageVars, mounted, component, formData, isSubmitting, submitStatus,
                            showSignupForm, timers, draws>>
        ELSE /\ isSubmitting' = TRUE
             /\ submitStatus' = "null"
             /\ errors' = EmptyObj
             /\ timers' = timers + 1
             /\ UNCHANGED <<pageVars, mounted, component, formData, showSignupForm, draws>>

\* the submit button without disabled={isSubmitting}
SubmitFormNotDisabled ==
    /\ FormRendered
    /\ timers + draws < MaxDraws
    /\ handleSubmit

\* the user activates the submit button, which is disabled while isSubmitting
SubmitForm ==
    /\ FormRendered
    /\ ~isSubmitting
    /\ timers + draws < MaxDraws
    /\ handleSubmit

\* a submit event reaches the form's onSubmit handler, whatever the button's state
DispatchSubmit ==
    /\ FormRendered
    /\ timers + draws < MaxDraws
    /\ timers < MaxTimers
    /\ handleSubmit

(***************************************************************************)
(* handleSubmit, after the await: the timer fires, the outcome is drawn.   *)
(***************************************************************************)
\* the success branch without the setFormData reset
resolveSubmitNoReset(isSuccess) ==
    /\ timers' = timers - 1
    /\ draws' = draws + 1
    /\ submitStatus' = (IF isSuccess THEN "success" ELSE "error")
    /\ showSignupForm' = (IF isSuccess /\ component = "LoyaltyProgram"
                          THEN FALSE ELSE showSignupForm)
    /\ isSubmitting' = FALSE
    /\ UNCHANGED <<pageVars, mounted, component, formData, errors>>

\* the reset done on both outcomes
resolveSubmitAlwaysReset(isSuccess) ==
    /\ timers' = timers - 1
    /\ draws' = draws + 1
    /\ submitStatus' = (IF isSuccess THEN "success" ELSE "error")
    /\ formData' = InitialFormData(component)
    /\ showSignupForm' = (IF isSuccess /\ component = "LoyaltyProgram"
                          THEN FALSE ELSE showSignupForm)
    /\ isSubmitting' = FALSE
    /\ UNCHANGED <<pageVars, mounted, component, errors>>

\* setIsSubmitting(false) in the success branch instead of finally
resolveSubmitNoFinally(isSuccess) ==
    /\ timers' = timers - 1
    /\ draws' = draws + 1
    /\ IF isSuccess
       THEN /\ submitStatus' = "success"
            /\ formData' = InitialFormData(component)
            /\ showSignupForm' = (IF component = "LoyaltyProgram" THEN FALSE
                                  ELSE showSignupForm)
            /\ isSubmitting' = FALSE
       ELSE /\ submitStatus' = "error"
            /\ UNCHANGED <<formData, showSignupForm, isSubmitting>>
    /\ UNCHANGED <<pageVars, mounted, component, errors>>

\* the reset literal of the success branch written without the email field
resolveSubmitDropsField(isSuccess) ==
    /\ timers' = timers - 1
    /\ draws' = draws + 1
    /\ IF isSuccess
       THEN /\ submitStatus' = "success"
            /\ formData' = [name \in FieldNames(component) \ {"email"} |->
                               InitialFormData(component)[name]]
            /\ showSignupForm' = (IF component = "LoyaltyProgram" THEN FALSE
                                  ELSE showSignupForm)
       ELSE /\ submitStatus' = "error"
            /\ UNCHANGED <<formData, showSignupForm>>
    /\ isSubmitting' = FALSE
    /\ UNCHANGED <<pageVars, mounted, component, errors>>

\* a success branch without setShowSignupForm(false)
resolveSubmitKeepsFormOpen(isSuccess) ==
    /\ timers' = timers - 1
    /\ draws' = draws + 1
    /\ IF isSuccess
       THEN /\ submitStatus' = "success"
            /\ formData' = InitialFormData(component)
            /\ UNCHANGED showSignupForm
       ELSE /\ submitStatus' = "error"
            /\ UNCHANGED <<formData, showSignupForm>>
    /\ isSubmitting' = FALSE
    /\ UNCHANGED <<pageVars, mounted, component, errors>>

resolveSubmit(isSuccess) ==
    /\ timers' = timers - 1
    /\ draws' = draws + 1
    /\ IF isSuccess
       THEN /\ submitStatus' = "success"
            /\ formData' = InitialFormData(component)
            /\ showSignupForm' = (IF component = "LoyaltyProgram" THEN FALSE
                                  ELSE showSignupForm)
       ELSE /\ submitStatus' = "error"
            /\ UNCHANGED <<formData, showSignupForm>>
    /\ isSubmitting' = FALSE
    /\ UNCHANGED <<pageVars, mounted, component, errors>>

TimerFires ==
    /\ timers > 0
    /\ \E isSuccess \in BOOLEAN : resolveSubmit(isSuccess)

(***************************************************************************)
(* toggleSignupForm (LoyaltyProgram): the Join Now and Cancel buttons.     *)
(***************************************************************************)
\* a Cancel that also abandons the submission in flight
toggleSignupFormCancels ==
    /\ mounted
    /\ component = "LoyaltyProgram"
    /\ showSignupForm' = ~showSignupForm
    /\ submitStatus' = "null"
    /\ errors' = EmptyObj
    /\ isSubmitting' = FALSE
    /\ timers' = 0
    /\ UNCHANGED <<pageVars, mounted, component, formData, draws>>

toggleSignupForm ==
    /\ mounted
    /\ component = "LoyaltyProgram"
    /\ showSignupForm' = ~showSignupForm
    /\ submitStatus' = "null"
    /\ errors' = EmptyObj
    /\ UNCHANGED <<pageVars, mounted, component, formData, isSubmitting, timers, draws>>

(***************************************************************************)
(* Spec: the component driven through its rendered controls.               *)
(* SpecDispatch: submit events may also be delivered straight to onSubmit. *)
(***************************************************************************)
Next == ChangeInput \/ SubmitForm \/ TimerFires \/ toggleSignupForm

Spec == Init /\ [][Next]_vars

NextDispatch == ChangeInput \/ DispatchSubmit \/ TimerFires \/ toggleSignupForm

SpecDispatch == Init /\ [][NextDispatch]_vars

\* the timer of a started submission eventually fires
FairSpec == Spec /\ WF_vars(TimerFires)

(***************************************************************************)
(* SpecUnmount: the component may also be unmounted.  handleSubmit sets up *)
(* no cleanup and tests no mounted flag, so a pending timer still fires    *)
(* and its continuation still calls the state setters.                     *)
(***************************************************************************)
Unmount ==
    /\ mounted
    /\ mounted' = FALSE
    /\ UNCHANGED <<pageVars, component, formData, errors, isSubmitting,
                   submitStatus, showSignupForm, timers, draws>>

NextUnmount == Next \/ Unmount

SpecUnmount == Init /\ [][NextUnmount]_vars

TypeOK ==
    /\ component \in Forms
    /\ DOMAIN formData = FieldNames(component)
    /\ DOMAIN errors \subseteq FieldNames(component)
    /\ isSubmitting \in BOOLEAN
    /\ submitStatus \in {"null", "success", "error"}
    /\ timers \in 0..MaxTimers
    /\ draws \in 0..MaxDraws
    /\ mounted \in BOOLEAN
    /\ theme \in ThemeValues
    /\ renderedTheme \in ThemeValues
    /\ localTheme \in StoredThemes
    /\ dataTheme \in ThemeValues \cup {"null"}
    /\ toggles \in 0..MaxToggles
    /\ currentEventIndex \in Int
    /\ currentDishIndex \in Int
    /\ visibleReviews \in Nat
    /\ expandedReviews \subseteq 1..Len(reviewsData)

(***************************************************************************)
(* SpecValidate: validateForm applied to field values drawn from samples.  *)
(* A party size is the number of the initial state or the string an option *)
(* value={i + 1} yields, on both sides of the limits 1 and 12.             *)
(***************************************************************************)
PartySizeValues ==
    {JsNum(-1)} \cup {JsNum(n) : n \in 0..MaxPartySample}
                \cup {JsStr(ToString(n)) : n \in 0..MaxPartySample}

EmailValues ==
    {JsStr(""), JsStr(" "), JsStr("jane"), JsStr("jane.doe"),
     JsStr("jane@example"), JsStr("jane.doe@example"),
     JsStr("jane@example.com"), JsStr("a@b.c")}

PhoneValues ==
    {JsStr(""), JsStr(" "), JsStr("12345"), JsStr("1234567890"),
     JsStr("(123) 456-7890"), JsStr("+1234567890"), JsStr("+123456789"),
     JsStr("123 456 789"), JsStr("1234567890x")}

FirstNameValues ==
    {JsStr(""), JsStr(" "), JsStr("J"), JsStr(" J"), JsStr("J "),
     JsStr("Jo"), JsStr("Jane")}

InitValidate ==
    /\ component \in Forms
    /\ formData \in
         CASE component = "Reservation" ->
                [date : {JsStr(""), JsStr("2024-03-01")},
                 time : {JsStr("6:00 PM")},
                 partySize : PartySizeValues,
                 name : {JsStr("Jane Doe")},
                 email : EmailValues,
                 phone : PhoneValues,
                 specialRequests : {JsStr("")}]
           [] component = "Newsletter" ->
                [email : EmailValues, firstName : FirstNameValues]
           [] component = "LoyaltyProgram" ->
                [email : EmailValues, firstName : FirstNameValues,
                 phone : PhoneValues]
    /\ errors = EmptyObj
    /\ isSubmitting = FALSE
    /\ submitStatus = "null"
    /\ showSignupForm = (component = "LoyaltyProgram")
    /\ timers = 0
    /\ draws = 0
    /\ mounted = TRUE
    /\ PageAtRest

NextValidate == SubmitForm

SpecValidate == InitValidate /\ [][NextValidate]_vars

(***************************************************************************)
(* SpecTheme: App is mounted in a browser with any saved item and any      *)
(* system preference; the forms stay as first rendered.                    *)
(***************************************************************************)
\* an untouched Reservation form
FormAtRest ==
    /\ component = "Reservation"
    /\ formData = InitialFormData(component)
    /\ errors = EmptyObj
    /\ isSubmitting = FALSE
    /\ submitStatus = "null"
    /\ showSignupForm = FALSE
    /\ timers = 0
    /\ draws = 0
    /\ mounted = TRUE

InitTheme ==
    /\ FormAtRest
    /\ WidgetsAtMount
    /\ theme = "light"
    /\ renderedTheme = "light"
    /\ effects = <<"mount", "persist">>
    /\ localTheme \in StoredThemes
    /\ dataTheme = "null"
    /\ matchMedia \in MatchMediaValues
    /\ setItemThrows \in BOOLEAN
    /\ toggles = 0

NextTheme == mountEffect \/ persistEffect \/ renderApp \/ toggleTheme

SpecTheme == InitTheme /\ [][NextTheme]_vars

(***************************************************************************)
(* SpecWidgets: the carousels and the Reviews list under any sequence of   *)
(* clicks.                                                                 *)
(***************************************************************************)
InitWidgets == FormAtRest /\ ThemeAtRest /\ WidgetsAtMount

NextWidgets ==
    \/ nextEvent
    \/ prevEvent
    \/ \E index \in 0..(Len(featuredEvents) - 1) : goToEvent(index)
    \/ nextDish
    \/ prevDish
    \/ \E index \in 0..(Len(featuredDishes) - 1) : goToDish(index)
    \/ toggleDescription
    \/ showMoreReviews
    \/ \E reviewId \in 1..Len(reviewsData) : toggleReviewExpansion(reviewId)

SpecWidgets == InitWidgets /\ [][NextWidgets]_vars

(***************************************************************************)
(* Properties of the submission state machine.                             *)
(***************************************************************************)

\* C1: in every reachable state at most one simulated submission is in
\* flight and isSubmitting is true exactly while its delay is pending;
\* isSubmitting becomes true only when a submit passes validation (a timer
\* starts) and becomes false only when that submission resolves.
C1_OneSubmissionInFlight ==
    /\ [](timers <= 1 /\ (isSubmitting <=> timers = 1))
    /\ [][/\ (~isSubmitting /\ isSubmitting') =>
                 (/\ Keys(validateForm(component, formData)) = {}
                  /\ timers' = timers + 1)
          /\ (isSubmitting /\ ~isSubmitting') =>
                 (timers' = timers - 1 /\ draws' = draws + 1)]_vars

\* a second submission is in flight after the first one has resolved
C1_Witness == isSubmitting /\ timers = 1 /\ draws = 1

\* C2: a submit event delivered to the onSubmit handler while isSubmitting
\* is true has no observable effect: no second delay, no second draw, and
\* values, errors, isSubmitting and status unchanged.
C2_SubmitWhileSubmittingIsNoOp ==
    [][(isSubmitting /\ FormRendered /\ handleSubmit) => UNCHANGED vars]_vars

\* C3: a submit event whose validation returns a non-empty mapping publishes
\* that mapping into errors, leaves isSubmitting false, starts no timer and
\* makes no random draw.
C3_InvalidSubmitStaysIdle ==
    [][(/\ FormRendered
        /\ ~isSubmitting
        /\ Keys(validateForm(component, formData)) # {}
        /\ handleSubmit)
       => (/\ errors' = validateForm(component, formData)
           /\ isSubmitting' = FALSE
           /\ timers' = timers
           /\ draws' = draws
           /\ formData' = formData
           /\ submitStatus' = submitStatus)]_vars

\* errors published by a failed validation pass, nothing in flight
C3_Witness ==
    /\ \E name \in DOMAIN errors : errors[name] # ""
    /\ errors = validateForm(component, formData)
    /\ ~isSubmitting
    /\ timers = 0

\* C4: a submit event in Idle whose validation returns the empty mapping
\* sets errors to the empty mapping, isSubmitting to true and status to
\* null in the step that starts the delay, whatever status and errors were.
C4_ValidSubmitEntersSubmitting ==
    [][(/\ FormRendered
        /\ ~isSubmitting
        /\ Keys(validateForm(component, formData)) = {}
        /\ handleSubmit)
       => (/\ errors' = EmptyObj
           /\ isSubmitting' = TRUE
           /\ submitStatus' = "null"
           /\ timers' = timers + 1
           /\ draws' = draws
           /\ formData' = formData)]_vars

\* a submission started after an earlier one resolved (status was set then)
C4_Witness ==
    /\ isSubmitting
    /\ submitStatus = "null"
    /\ errors = EmptyObj
    /\ draws >= 1

\* C5: when a submission resolves with Success every field has its initial
\* default, errors is empty, status is success and isSubmitting is false,
\* also when fields were edited during the wait.
C5_SuccessResetsForm ==
    [][resolveSubmit(TRUE)
       => (/\ formData' = InitialFormData(component)
           /\ errors' = EmptyObj
           /\ submitStatus' = "success"
           /\ isSubmitting' = FALSE)]_vars

\* a resolved success, at defaults
C5_Witness ==
    /\ submitStatus = "success"
    /\ draws >= 1
    /\ formData = InitialFormData(component)
    /\ ~isSubmitting

\* C6: when a submission resolves with Failure the field values are exactly
\* those before the resolution, status becomes error and isSubmitting false.
C6_FailureKeepsValues ==
    [][resolveSubmit(FALSE)
       => (/\ formData' = formData
           /\ submitStatus' = "error"
           /\ isSubmitting' = FALSE)]_vars

\* a resolved failure with the user's input still in the fields
C6_Witness ==
    /\ submitStatus = "error"
    /\ draws >= 1
    /\ ~isSubmitting
    /\ Keys(validateForm(component, formData)) = {}

\* C7: every submission that enters Submitting eventually resolves: the form
\* is back in Idle with isSubmitting false and status success or error.
C7_SubmissionEventuallyResolves ==
    isSubmitting ~> (~isSubmitting /\ timers = 0
                     /\ submitStatus \in {"success", "error"})

\* a submission has resolved and the form is idle again
C7_Witness ==
    /\ draws >= 1
    /\ ~isSubmitting
    /\ timers = 0
    /\ submitStatus \in {"success", "error"}

\* an edit event of the control called name
EditOf(name) ==
    /\ FormRendered
    /\ \E value \in InputValues(component, name) : handleInputChange(name, value)

\* C8 (as stated): editing a field that has an error removes the field's
\* name from the keys of errors.
C8_EditRemovesErrorKey ==
    [][\A name \in FieldNames(component) :
          (HasError(errors, name) /\ EditOf(name))
              => name \notin Keys(errors')]_vars

\* C8 (amended): editing a field that has an error sets the field's entry
\* to the empty string, whatever the new value; the name stays a key.
C8_EditBlanksError ==
    [][\A name \in FieldNames(component) :
          (HasError(errors, name) /\ EditOf(name))
              => (/\ name \in Keys(errors')
                  /\ errors'[name] = ""
                  /\ ~HasError(errors', name))]_vars

\* a field whose error was blanked by an edit to a value that is still invalid
C8_Witness ==
    \E name \in DOMAIN errors :
        /\ errors[name] = ""
        /\ HasError(validateForm(component, formData), name)

\* C9: an edit of field name to value stores value verbatim, runs no
\* validation (no error is added or changed, the field's own error may only
\* be blanked), and leaves the other fields, the other errors, isSubmitting
\* and status unchanged.
C9_EditFrame ==
    [][\A name \in FieldNames(component) :
          \A value \in InputValues(component, name) :
              (FormRendered /\ handleInputChange(name, value))
                  => (/\ formData'[name] = value
                      /\ \A other \in FieldNames(component) \ {name} :
                            formData'[other] = formData[other]
                      /\ Keys(errors') = Keys(errors)
                      /\ \A key \in Keys(errors) :
                            \/ errors'[key] = errors[key]
                            \/ key = name /\ errors'[key] = ""
                      /\ isSubmitting' = isSubmitting
                      /\ submitStatus' = submitStatus
                      /\ timers' = timers
                      /\ draws' = draws)]_vars

\* a field now invalid was edited while another field's error stayed shown
C9_Witness ==
    \E name \in FieldNames(component) :
        /\ HasError(validateForm(component, formData), name)
        /\ ~HasError(errors, name)
        /\ \E other \in DOMAIN errors : other # name /\ errors[other] # ""

\* the fields each form requires
RequiredFields(form) ==
    CASE form = "Reservation" -> {"date", "time", "name", "email", "phone"}
      [] form = "Newsletter" -> {"email", "firstName"}
      [] form = "LoyaltyProgram" -> {"email", "firstName", "phone"}

\* C10: for every required field whose value is empty or whitespace-only,
\* validateForm returns an error entry for that field.
C10_RequiredFieldsFlagged ==
    \A name \in RequiredFields(component) :
        Trim(formData[name].str) = ""
            => HasError(validateForm(component, formData), name)

\* a failed pass flagged a whitespace-only name and an empty date
C10_Witness ==
    /\ component = "Reservation"
    /\ formData.name = JsStr(" ")
    /\ formData.date = JsStr("")
    /\ HasError(errors, "name")
    /\ HasError(errors, "date")

(***************************************************************************)
(* Properties of validateForm.                                             *)
(***************************************************************************)

\* formData holds the party size n, as a number or as an option's string
HoldsPartySize(n) ==
    \/ formData.partySize = JsNum(n)
    \/ n >= 0 /\ formData.partySize = JsStr(ToString(n))

\* C11: validateForm flags partySize for a party size outside [1,12] and
\* produces no partySize error for a size inside [1,12], also when the size
\* is the string stored after an option of the select was picked.
C11_PartySizeRange ==
    component = "Reservation" =>
        \A n \in -1..MaxPartySample :
            HoldsPartySize(n) =>
                (HasError(validateForm(component, formData), "partySize")
                    <=> n \notin 1..12)

\* the string "13" was validated and flagged
C11_Witness ==
    /\ component = "Reservation"
    /\ formData.partySize = JsStr("13")
    /\ HasError(errors, "partySize")

\* s has no "@"
LacksAt(s) == \A i \in 1..Len(s) : CharAt(s, i) # "@"

\* s has no "." after an "@"
LacksDotAfterAt(s) ==
    ~\E i \in 1..Len(s) : \E j \in (i + 1)..Len(s) :
        CharAt(s, i) = "@" /\ CharAt(s, j) = "."

\* C12: in all three forms a non-blank email without "@", or without a dot
\* in the part after the "@", gets the invalid-email error.
C12_InvalidEmailFlagged ==
    (/\ Trim(formData.email.str) # ""
     /\ LacksAt(formData.email.str) \/ LacksDotAfterAt(formData.email.str))
        => (/\ "email" \in Keys(validateForm(component, formData))
            /\ validateForm(component, formData).email
                   = "Please enter a valid email address")

\* an email whose only dot is before the "@" was validated and flagged
C12_Witness ==
    /\ formData.email = JsStr("jane.doe@example")
    /\ HasError(errors, "email")
    /\ errors.email = "Please enter a valid email address"

\* number of digits, hyphens and parentheses in s
RECURSIVE CountDigitSep(_)
CountDigitSep(s) ==
    IF Len(s) = 0 THEN 0
    ELSE (IF IsDigit(CharAt(s, 1)) \/ CharAt(s, 1) \in {"-", "(", ")"}
          THEN 1 ELSE 0) + CountDigitSep(SubSeq(s, 2, Len(s)))

\* number of whitespace characters in s
RECURSIVE CountSpaces(_)
CountSpaces(s) ==
    IF Len(s) = 0 THEN 0
    ELSE (IF IsSpace(CharAt(s, 1)) THEN 1 ELSE 0)
         + CountSpaces(SubSeq(s, 2, Len(s)))

\* 1 when the first character of s that is not whitespace is "+"
LeadingPlus(s) ==
    IF Len(TrimStart(s)) > 0 /\ CharAt(TrimStart(s), 1) = "+" THEN 1 ELSE 0

FormsWithPhone == {"Reservation", "LoyaltyProgram"}

\* C13 (as stated): a non-blank phone is accepted when it contains at least
\* 10 digit/separator characters (digits, spaces, hyphens, parentheses) and
\* is flagged otherwise.
C13_PhoneTenDigitOrSeparatorChars ==
    (component \in FormsWithPhone /\ Trim(formData.phone.str) # "")
        => (~HasError(validateForm(component, formData), "phone")
               <=> CountDigitSep(formData.phone.str)
                     + CountSpaces(formData.phone.str) >= 10)

\* C13 (amended): a non-blank phone is accepted exactly when it consists of
\* an optional leading "+", digits, hyphens, parentheses and whitespace, and
\* at least 10 of its characters are digits, hyphens or parentheses
\* (whitespace does not count); otherwise it gets the invalid-phone error.
C13_PhoneTenNonSpaceChars ==
    (component \in FormsWithPhone /\ Trim(formData.phone.str) # "")
        => LET s == formData.phone.str
               accepted == /\ CountDigitSep(s) >= 10
                           /\ CountDigitSep(s) + CountSpaces(s) + LeadingPlus(s)
                                 = Len(s)
               e == validateForm(component, formData)
           IN  IF accepted THEN "phone" \notin Keys(e)
               ELSE /\ "phone" \in Keys(e)
                    /\ e.phone = "Please enter a valid phone number"

\* nine digits and two spaces were validated and flagged
C13_Witness ==
    /\ component \in FormsWithPhone
    /\ formData.phone = JsStr("123 456 789")
    /\ HasError(errors, "phone")

FormsWithFirstName == {"Newsletter", "LoyaltyProgram"}

\* C14: in Newsletter and LoyaltyProgram a non-blank first name is flagged
\* exactly when it has fewer than 2 characters after trimming; a blank first
\* name gets the required-field error, not the minimum-length error.
C14_FirstNameMinLength ==
    component \in FormsWithFirstName
        => LET s == formData.firstName.str
               e == validateForm(component, formData)
           IN  IF Trim(s) = ""
               THEN /\ "firstName" \in Keys(e)
                    /\ e.firstName = "First name is required"
               ELSE IF Len(Trim(s)) < 2
               THEN /\ "firstName" \in Keys(e)
                    /\ e.firstName = "First name must be at least 2 characters"
               ELSE "firstName" \notin Keys(e)

\* one letter after a space was validated and got the minimum-length error
C14_Witness ==
    /\ component \in FormsWithFirstName
    /\ formData.firstName = JsStr(" J")
    /\ HasError(errors, "firstName")
    /\ errors.firstName = "First name must be at least 2 characters"

(***************************************************************************)
(* Properties of the status banner, teardown, errors and the field set.    *)
(***************************************************************************)

\* a resolved submission's banner is showing
BannerShown == submitStatus \in {"success", "error"}

\* an edit event of any control of the form
AnyEdit == \E name \in FieldNames(component) : EditOf(name)

\* C16 (as stated): once a submit attempt has resolved, editing a field or
\* reopening the form sets status to null.
C16_EditOrReopenClearsStatus ==
    [][(BannerShown /\ (AnyEdit \/ toggleSignupForm))
          => submitStatus' = "null"]_vars

\* C16 (amended): toggling the LoyaltyProgram signup form sets status to
\* null; editing a field leaves status as it is.
C16_ToggleClearsStatusEditKeepsIt ==
    [][/\ (BannerShown /\ toggleSignupForm) => submitStatus' = "null"
       /\ (BannerShown /\ AnyEdit) => submitStatus' = submitStatus]_vars

\* the success banner still shows after a field was edited
C16_Witness ==
    /\ submitStatus = "success"
    /\ formData # InitialFormData(component)
    /\ timers = 0

\* a submit event of the enabled form
SubmitEvent == FormRendered /\ ~isSubmitting /\ handleSubmit

\* C17 (as stated): a banner persists until the next submit attempt, and
\* that attempt overwrites status, also when it fails validation.
C17_BannerUntilAnySubmit ==
    [][BannerShown =>
          IF SubmitEvent THEN submitStatus' # submitStatus
          ELSE submitStatus' = submitStatus]_vars

\* C17 (amended): a banner persists until the next submit attempt that
\* passes validation, which sets status to null, or until the LoyaltyProgram
\* signup form is toggled; an attempt that fails validation leaves it.
C17_BannerUntilValidSubmitOrToggle ==
    [][BannerShown =>
          /\ submitStatus' # submitStatus =>
                /\ submitStatus' = "null"
                /\ \/ timers' = timers + 1
                   \/ showSignupForm' # showSignupForm
          /\ (SubmitEvent /\ Keys(validateForm(component, formData)) # {})
                => submitStatus' = submitStatus
          /\ (SubmitEvent /\ Keys(validateForm(component, formData)) = {})
                => submitStatus' = "null"]_vars

\* an attempt failed validation while the error banner stayed
C17_Witness ==
    /\ submitStatus = "error"
    /\ \E name \in Keys(errors) : errors[name] # ""
    /\ errors = validateForm(component, formData)

\* C18: once the component is unmounted, the resolution of a submission in
\* flight updates none of values, errors, isSubmitting and status.
C18_ResolutionAfterUnmountIsNoOp ==
    [][~mounted => UNCHANGED <<formData, errors, isSubmitting, submitStatus>>]_vars

\* C19: a key of errors failed in the most recent validation pass.  Stated
\* on steps: a name enters the keys of errors only in a step that publishes
\* the result of validateForm on the current values, in which it failed;
\* and every pass leaves errors with no key outside its result.
C19_ErrorKeysFromLastPass ==
    [][/\ \A name \in Keys(errors') \ Keys(errors) :
             /\ errors' = validateForm(component, formData)
             /\ formData' = formData
       /\ SubmitEvent
             => Keys(errors') \subseteq Keys(validateForm(component, formData))]_vars

\* a field fixed after a failed pass: its key stays, blanked, and no other
C19_Witness ==
    /\ \E name \in Keys(errors) :
          /\ errors[name] = ""
          /\ name \notin Keys(validateForm(component, formData))
    /\ \E name \in FieldNames(component) : name \notin Keys(errors)

\* C20: the set of field names of formData is in every reachable state the
\* set at mount.
C20_FieldNamesFixed == DOMAIN formData = FieldNames(component)

\* fields edited again after a success reset
C20_Witness ==
    /\ draws >= 1
    /\ submitStatus = "success"
    /\ \E name \in FieldNames(component) :
          formData[name] # InitialFormData(component)[name]
    /\ \E name \in Keys(errors) : errors[name] # ""

(***************************************************************************)
(* Properties of the App theme.                                            *)
(***************************************************************************)

\* the step is the run of the mount effect
MountEffectStep ==
    /\ effects # <<>>
    /\ Head(effects) = "mount"
    /\ effects' = Tail(effects)

\* the theme the mount is to select from the saved item and the system
MountTheme ==
    IF localTheme \in ThemeValues THEN localTheme
    ELSE IF matchMedia = "dark" THEN "dark" ELSE "light"

\* C21: on mount the theme becomes the saved localStorage value when it is
\* 'light' or 'dark', else 'dark' if the system prefers dark and 'light' if
\* not; and until the first toggle a saved 'light' or 'dark' item is not
\* overwritten with a different value.
C21_MountThemeFromSavedOrSystem ==
    [][/\ MountEffectStep => theme' = MountTheme
       /\ (toggles' = 0 /\ localTheme \in ThemeValues)
             => localTheme' = localTheme]_vars

\* the settled page: every effect has run and no render is pending
ThemeSettled == effects = <<>> /\ renderedTheme = theme

\* C22 (as stated): the theme is 'light' or 'dark', each toggleTheme flips
\* it, and once effects have run the localStorage item and the data-theme
\* attribute both equal the theme.
C22_ThemePersisted ==
    /\ [](theme \in ThemeValues)
    /\ [][toggles' # toggles => (theme' # theme /\ theme' \in ThemeValues)]_vars
    /\ [](ThemeSettled => (localTheme = theme /\ dataTheme = theme))

\* C22 (amended): as stated for the attribute; the localStorage item equals
\* the theme unless setItem throws, and then it keeps the value it had.
C22_ThemePersistedUnlessSetItemThrows ==
    /\ [](theme \in ThemeValues)
    /\ [][toggles' # toggles => (theme' # theme /\ theme' \in ThemeValues)]_vars
    /\ [](ThemeSettled => dataTheme = theme)
    /\ [](ThemeSettled => IF setItemThrows THEN TRUE ELSE localTheme = theme)
    /\ [][setItemThrows => localTheme' = localTheme]_vars

\* two toggles made and their effects run: the theme is the one selected at
\* mount again, persisted and applied
C22_Witness ==
    /\ toggles = 2
    /\ ThemeSettled
    /\ ~setItemThrows
    /\ localTheme = theme
    /\ dataTheme = theme

(***************************************************************************)
(* Properties of validation passes, edits in flight and the signup toggle. *)
(***************************************************************************)

\* the current values fail validation
ValuesInvalid == Keys(validateForm(component, formData)) # {}

\* C24: after a submit that fails validation errors is exactly the mapping
\* validateForm returns for the current values, so it has no entry, from
\* this or an earlier pass, for a field that is now valid.
C24_FailedPassReplacesErrors ==
    [][(SubmitEvent /\ ValuesInvalid) =>
          /\ errors' = validateForm(component, formData)
          /\ formData' = formData
          /\ \A name \in FieldNames(component) :
                name \notin Keys(validateForm(component, formData))
                   => name \notin Keys(errors')]_vars

\* a failed pass after a resolved submission: a field filled in is absent
\* from errors
C24_Witness ==
    /\ draws >= 1
    /\ ValuesInvalid
    /\ errors = validateForm(component, formData)
    /\ \E name \in RequiredFields(component) : name \notin Keys(errors)

\* C25: the validation pass of a submit event is made on the field values
\* of the state the event arrives in, which hold every earlier edit: the
\* submission starts exactly when those values are valid, and otherwise
\* errors is the result for those values.
C25_PassUsesCurrentValues ==
    [][SubmitEvent =>
          IF ValuesInvalid
          THEN timers' = timers /\ errors' = validateForm(component, formData)
          ELSE timers' = timers + 1 /\ isSubmitting']_vars

\* a submission started on edited values, the values of the first render
\* being invalid
C25_Witness ==
    /\ timers = 1
    /\ draws = 0
    /\ formData # InitialFormData(component)
    /\ ~ValuesInvalid
    /\ Keys(validateForm(component, InitialFormData(component))) # {}

\* C26: an edit made while isSubmitting is true is stored, runs no
\* validation pass, starts no submission and leaves the one in flight,
\* isSubmitting and status as they are; a Failure keeps the values as edited.
C26_EditsInFlightStored ==
    /\ [][\A name \in FieldNames(component) :
             \A value \in InputValues(component, name) :
                (isSubmitting /\ FormRendered /\ handleInputChange(name, value))
                   => /\ formData' = Put(formData, name, value)
                      /\ errors' = errors
                      /\ timers' = timers
                      /\ draws' = draws
                      /\ isSubmitting'
                      /\ submitStatus' = submitStatus]_vars
    /\ [][(isSubmitting /\ draws' = draws + 1 /\ submitStatus' = "error")
             => formData' = formData]_vars

\* values edited into an invalid state while the submission is in flight
C26_Witness == isSubmitting /\ timers = 1 /\ ValuesInvalid

\* C27: toggleSignupForm flips showSignupForm, sets status to null and
\* errors to empty and leaves the values, isSubmitting and the submission
\* in flight alone; the resolution of that submission sets status.
C27_ToggleFrame ==
    /\ [][toggleSignupForm =>
             /\ showSignupForm' = ~showSignupForm
             /\ submitStatus' = "null"
             /\ errors' = EmptyObj
             /\ UNCHANGED <<formData, isSubmitting, timers, draws>>]_vars
    /\ [][(timers > 0 /\ draws' = draws + 1)
             => submitStatus' \in {"success", "error"}]_vars

\* the form was cancelled during the wait and the submission then failed
C27_Witness ==
    /\ component = "LoyaltyProgram"
    /\ ~showSignupForm
    /\ submitStatus = "error"
    /\ ~isSubmitting

\* C28: in LoyaltyProgram a resolution with Success leaves the signup form
\* hidden and a resolution with Failure leaves showSignupForm as it was.
C28_SuccessHidesSignupForm ==
    [][(component = "LoyaltyProgram" /\ draws' = draws + 1) =>
          IF submitStatus' = "success"
          THEN showSignupForm' = FALSE
          ELSE showSignupForm' = showSignupForm]_vars

\* a member signed up: success shown, form hidden and reset
C28_Witness ==
    /\ component = "LoyaltyProgram"
    /\ submitStatus = "success"
    /\ ~showSignupForm
    /\ formData = InitialFormData(component)
    /\ timers = 0

(***************************************************************************)
(* Properties of the carousels and of the Reviews list.                    *)
(***************************************************************************)

\* C29: in both carousels the current index is always that of an item; next
\* from the last item gives the first, prev from the first gives the last,
\* and the prev updater applied to the result of next gives the index back.
C29_CarouselIndexInRange ==
    /\ [](/\ currentEventIndex \in 0..(Len(featuredEvents) - 1)
          /\ currentDishIndex \in 0..(Len(featuredDishes) - 1))
    /\ [][/\ nextEvent =>
                /\ currentEventIndex = Len(featuredEvents) - 1
                      => currentEventIndex' = 0
                /\ prevIndex(currentEventIndex', Len(featuredEvents))
                      = currentEventIndex
          /\ prevEvent =>
                (currentEventIndex = 0
                    => currentEventIndex' = Len(featuredEvents) - 1)
          /\ nextDish =>
                /\ currentDishIndex = Len(featuredDishes) - 1
                      => currentDishIndex' = 0
                /\ prevIndex(currentDishIndex', Len(featuredDishes))
                      = currentDishIndex
          /\ prevDish =>
                (currentDishIndex = 0
                    => currentDishIndex' = Len(featuredDishes) - 1)]_vars

\* both carousels show their last item
C29_Witness ==
    /\ currentEventIndex = Len(featuredEvents) - 1
    /\ currentDishIndex = Len(featuredDishes) - 1

\* C30: visibleReviews starts at 3, showMoreReviews adds 3 capped at the
\* number of reviews, the count never decreases and stays within [3, total];
\* toggleReviewExpansion flips the flag of its review and no other.
C30_ReviewsVisibleAndExpanded ==
    /\ visibleReviews = 3
    /\ [](visibleReviews \in 3..Len(reviewsData))
    /\ [][/\ visibleReviews' >= visibleReviews
          /\ showMoreReviews =>
                visibleReviews' = Min(visibleReviews + 3, Len(reviewsData))
          /\ \A reviewId \in 1..Len(reviewsData) :
                toggleReviewExpansion(reviewId) =>
                   /\ (reviewId \in expandedReviews') # (reviewId \in expandedReviews)
                   /\ \A other \in (1..Len(reviewsData)) \ {reviewId} :
                         (other \in expandedReviews') = (other \in expandedReviews)
                   /\ visibleReviews' = visibleReviews]_vars

\* every review is shown and two of them are expanded
C30_Witness ==
    /\ visibleReviews = Len(reviewsData)
    /\ Cardinality(expandedReviews) >= 2
====
